---- MODULE Spec2Model ----
(***************************************************************************)
(* Model of homeassistant/components/esphome/climate.py: the ESPHome       *)
(* climate entity.  The entity holds a static info (received once), an     *)
(* optional state snapshot delivered by the device, and a client to which  *)
(* climate commands are sent.                                              *)
(*                                                                         *)
(* Conventions.                                                            *)
(*   Optional[T]   None is <<>>, a present value x is <<x>>.                *)
(*   float         [nan |-> BOOLEAN, v |-> Int], v in hundredths; NaN      *)
(*                 compares false with everything, as in IEEE 754.         *)
(*   ClimateMode   the device enum: "OFF", "AUTO", "COOL", "HEAT".         *)
(*   host modes    the STATE_* strings: "off", "auto", "cool", "heat".     *)
(*   kwargs, command keyword arguments: functions from the given names.    *)
(***************************************************************************)
EXTENDS Integers, Sequences, FiniteSets, TLC

VARIABLES static_info, state, sent, ret

vars == <<static_info, state, sent, ret>>

(* ------------------------------ bounds --------------------------------- *)

\* Longest recorded sequence of commands under Spec and SpecInfo.
MaxCmds == 1

\* Longest recorded sequence of away commands under SpecAway.
MaxAwayCmds == 3

\* Longest supported_modes list of a static info.
MaxModes == 2

(* --------------------------- value encodings --------------------------- *)

None == <<>>

Some(x) == <<x>>

NaN == [nan |-> TRUE, v |-> 0]

Float(x) == [nan |-> FALSE, v |-> x]

\* math.isnan
isnan(f) == f.nan

\* a >= b on floats: false as soon as one side is NaN
FloatGe(a, b) == ~a.nan /\ ~b.nan /\ a.v >= b.v

\* Python's a | b on non-negative ints
RECURSIVE BitOr(_, _)
BitOr(a, b) ==
    IF a = 0 THEN b
    ELSE IF b = 0 THEN a
    ELSE (IF a % 2 = 1 \/ b % 2 = 1 THEN 1 ELSE 0) + 2 * BitOr(a \div 2, b \div 2)

\* The outcome of a call: it returned `value` (None when it returns nothing),
\* or it raised.
Ok(v) == [raised |-> FALSE, value |-> v]

Raise == [raised |-> TRUE, value |-> None]

(* ---------------- constants of the host framework ---------------------- *)
\* The module imports these names; their values are those of homeassistant.const
\* and homeassistant.components.climate.const.
\* homeassistant.const: the precisions 1, 0.5 and 0.1, in hundredths
PRECISION_WHOLE == 100

PRECISION_HALVES == 50

PRECISION_TENTHS == 10

STATE_OFF == "off"

STATE_AUTO == "auto"

STATE_COOL == "cool"

STATE_HEAT == "heat"

\* homeassistant.components.climate.const: the feature bits
SUPPORT_TARGET_TEMPERATURE == 1

SUPPORT_TARGET_TEMPERATURE_HIGH == 2

SUPPORT_TARGET_TEMPERATURE_LOW == 4

SUPPORT_OPERATION_MODE == 128

SUPPORT_AWAY_MODE == 1024

ATTR_OPERATION_MODE == "operation_mode"

ATTR_TEMPERATURE == "temperature"

ATTR_TARGET_TEMP_LOW == "target_temp_low"

ATTR_TARGET_TEMP_HIGH == "target_temp_high"

\* aioesphomeapi.ClimateMode
ClimateMode == {"OFF", "AUTO", "COOL", "HEAT"}

(* ------------------------- mode translation ---------------------------- *)

\* Mutant of HaToEsphomeTable: STATE_AUTO given the value of the next entry.
HaToEsphomeTable_AutoAsCool ==
    (STATE_OFF :> "OFF") @@ (STATE_AUTO :> "COOL") @@
    (STATE_COOL :> "COOL") @@ (STATE_HEAT :> "HEAT")

\* the dict literal of _ha_climate_mode_to_esphome
HaToEsphomeTable ==
    (STATE_OFF :> "OFF") @@ (STATE_AUTO :> "AUTO") @@
    (STATE_COOL :> "COOL") @@ (STATE_HEAT :> "HEAT")

\* Mutant of EsphomeToHaTable: the values of COOL and HEAT exchanged.
EsphomeToHaTable_CoolHeatSwapped ==
    ("OFF" :> STATE_OFF) @@ ("AUTO" :> STATE_AUTO) @@
    ("COOL" :> STATE_HEAT) @@ ("HEAT" :> STATE_COOL)

\* the dict literal of _esphome_climate_mode_to_ha
EsphomeToHaTable ==
    ("OFF" :> STATE_OFF) @@ ("AUTO" :> STATE_AUTO) @@
    ("COOL" :> STATE_COOL) @@ ("HEAT" :> STATE_HEAT)

\* dict[key]: a KeyError when the key is absent
Lookup(table, k) ==
    IF k \in DOMAIN table THEN Ok(Some(table[k])) ELSE Raise

_ha_climate_mode_to_esphome(mode) == Lookup(HaToEsphomeTable, mode)

_esphome_climate_mode_to_ha(mode) == Lookup(EsphomeToHaTable, mode)

(* ------------------------- property getters ---------------------------- *)

precicions == <<PRECISION_WHOLE, PRECISION_HALVES, PRECISION_TENTHS>>

\* Mutant of precisionFrom: the comparison is > instead of >=.
RECURSIVE precisionFrom_Strict(_)
precisionFrom_Strict(i) ==
    IF i > Len(precicions) THEN PRECISION_TENTHS
    ELSE IF /\ FloatGe(static_info.visual_temperature_step, Float(precicions[i]))
            /\ static_info.visual_temperature_step # Float(precicions[i])
         THEN precicions[i]
         ELSE precisionFrom_Strict(i + 1)

\* the for loop of precision, from index i on
RECURSIVE precisionFrom(_)
precisionFrom(i) ==
    IF i > Len(precicions) THEN PRECISION_TENTHS
    ELSE IF FloatGe(static_info.visual_temperature_step, Float(precicions[i]))
         THEN precicions[i]
         ELSE precisionFrom(i + 1)

precision == Ok(Some(precisionFrom(1)))

\* the list comprehension of operation_list over modes[i..]
RECURSIVE operationListFrom(_, _)
operationListFrom(modes, i) ==
    IF i > Len(modes) THEN Ok(Some(<<>>))
    ELSE LET h == _esphome_climate_mode_to_ha(modes[i])
             rest == operationListFrom(modes, i + 1)
         IN IF h.raised \/ rest.raised THEN Raise
            ELSE Ok(Some(<<h.value[1]>> \o rest.value[1]))

operation_list == operationListFrom(static_info.supported_modes, 1)

\* Mutant of supported_features: SUPPORT_TARGET_TEMPERATURE is set without
\* the else.
supported_features_NoElse ==
    LET f0 == SUPPORT_OPERATION_MODE
        f1 == IF static_info.supports_two_point_target_temperature
              THEN BitOr(f0, BitOr(SUPPORT_TARGET_TEMPERATURE_LOW,
                                   SUPPORT_TARGET_TEMPERATURE_HIGH))
              ELSE f0
        f2 == BitOr(f1, SUPPORT_TARGET_TEMPERATURE)
        f3 == IF static_info.supports_away
              THEN BitOr(f2, SUPPORT_AWAY_MODE)
              ELSE f2
    IN Ok(Some(f3))

supported_features ==
    LET f0 == SUPPORT_OPERATION_MODE
        f1 == IF static_info.supports_two_point_target_temperature
              THEN BitOr(f0, BitOr(SUPPORT_TARGET_TEMPERATURE_LOW,
                                   SUPPORT_TARGET_TEMPERATURE_HIGH))
              ELSE BitOr(f0, SUPPORT_TARGET_TEMPERATURE)
        f2 == IF static_info.supports_away
              THEN BitOr(f1, SUPPORT_AWAY_MODE)
              ELSE f1
    IN Ok(Some(f2))

\* Mutant of current_operation: no check of _state against None, so the
\* attribute access on None raises.
current_operation_NoNoneCheck ==
    IF state = None THEN Raise
    ELSE _esphome_climate_mode_to_ha(state[1].mode)

current_operation ==
    IF state = None THEN Ok(None)
    ELSE _esphome_climate_mode_to_ha(state[1].mode)

current_temperature ==
    IF state = None THEN Ok(None)
    ELSE IF isnan(state[1].current_temperature) THEN Ok(None)
    ELSE Ok(Some(state[1].current_temperature))

\* Mutant of target_temperature: a truthiness test, so 0 counts as no value.
target_temperature_Falsy ==
    IF state = None THEN Ok(None)
    ELSE IF isnan(state[1].target_temperature) THEN Ok(None)
    ELSE IF state[1].target_temperature = Float(0) THEN Ok(None)
    ELSE Ok(Some(state[1].target_temperature))

target_temperature ==
    IF state = None THEN Ok(None)
    ELSE IF isnan(state[1].target_temperature) THEN Ok(None)
    ELSE Ok(Some(state[1].target_temperature))

target_temperature_low ==
    IF state = None THEN Ok(None)
    ELSE IF isnan(state[1].target_temperature_low) THEN Ok(None)
    ELSE Ok(Some(state[1].target_temperature_low))

target_temperature_high ==
    IF state = None THEN Ok(None)
    ELSE IF isnan(state[1].target_temperature_high) THEN Ok(None)
    ELSE Ok(Some(state[1].target_temperature_high))

is_away_mode_on ==
    IF state = None THEN Ok(None)
    ELSE Ok(Some(state[1].away))

\* The host reads property `op`, whose getter yields outcome r.
Read(op, r) ==
    /\ ret' = [op |-> op, args |-> <<>>, raised |-> r.raised, value |-> r.value]
    /\ UNCHANGED <<static_info, state, sent>>

get_precision == Read("precision", precision)

get_operation_list == Read("operation_list", operation_list)

get_supported_features == Read("supported_features", supported_features)

get_current_operation == Read("current_operation", current_operation)

get_current_temperature == Read("current_temperature", current_temperature)

get_target_temperature == Read("target_temperature", target_temperature)

get_target_temperature_low ==
    Read("target_temperature_low", target_temperature_low)

get_target_temperature_high ==
    Read("target_temperature_high", target_temperature_high)

get_is_away_mode_on == Read("is_away_mode_on", is_away_mode_on)

(* ------------------------------ commands ------------------------------- *)

\* await self._client.climate_command(**data): the client records the command
climate_command(data) == sent' = Append(sent, data)

\* The call op(args) ended: it returned nothing, or it raised.
Called(op, args, raised) ==
    ret' = [op |-> op, args |-> args, raised |-> raised, value |-> None]

\* Mutant of SetTemperatureData: kwargs.get(ATTR_TEMPERATURE) tested for
\* truth, so a temperature of 0 is left out.
SetTemperatureData_Truthy(kwargs, mode) ==
    LET d0 == "key" :> static_info.key
        d1 == IF ATTR_OPERATION_MODE \in DOMAIN kwargs
              THEN d0 @@ ("mode" :> mode.value[1]) ELSE d0
        d2 == IF /\ ATTR_TEMPERATURE \in DOMAIN kwargs
                 /\ kwargs[ATTR_TEMPERATURE] # Float(0)
              THEN d1 @@ ("target_temperature" :> kwargs[ATTR_TEMPERATURE])
              ELSE d1
        d3 == IF ATTR_TARGET_TEMP_LOW \in DOMAIN kwargs
              THEN d2 @@ ("target_temperature_low" :> kwargs[ATTR_TARGET_TEMP_LOW])
              ELSE d2
        d4 == IF ATTR_TARGET_TEMP_HIGH \in DOMAIN kwargs
              THEN d3 @@ ("target_temperature_high" :> kwargs[ATTR_TARGET_TEMP_HIGH])
              ELSE d3
    IN d4

\* the dict `data` async_set_temperature builds, given the translated mode
SetTemperatureData(kwargs, mode) ==
    LET d0 == "key" :> static_info.key
        d1 == IF ATTR_OPERATION_MODE \in DOMAIN kwargs
              THEN d0 @@ ("mode" :> mode.value[1]) ELSE d0
        d2 == IF ATTR_TEMPERATURE \in DOMAIN kwargs
              THEN d1 @@ ("target_temperature" :> kwargs[ATTR_TEMPERATURE])
              ELSE d1
        d3 == IF ATTR_TARGET_TEMP_LOW \in DOMAIN kwargs
              THEN d2 @@ ("target_temperature_low" :> kwargs[ATTR_TARGET_TEMP_LOW])
              ELSE d2
        d4 == IF ATTR_TARGET_TEMP_HIGH \in DOMAIN kwargs
              THEN d3 @@ ("target_temperature_high" :> kwargs[ATTR_TARGET_TEMP_HIGH])
              ELSE d3
    IN d4

\* Mutant of async_set_temperature: the mode is looked up with dict.get, so
\* an unknown mode is dropped and the rest of the call is sent.
async_set_temperature_DropsBadMode(kwargs) ==
    LET mode == IF ATTR_OPERATION_MODE \in DOMAIN kwargs
                THEN _ha_climate_mode_to_esphome(kwargs[ATTR_OPERATION_MODE])
                ELSE Ok(None)
        given == IF mode.raised
                 THEN [a \in DOMAIN kwargs \ {ATTR_OPERATION_MODE} |-> kwargs[a]]
                 ELSE kwargs
    IN /\ climate_command(SetTemperatureData(given, mode))
       /\ Called("async_set_temperature", <<kwargs>>, FALSE)
       /\ UNCHANGED <<static_info, state>>

async_set_temperature(kwargs) ==
    LET mode == IF ATTR_OPERATION_MODE \in DOMAIN kwargs
                THEN _ha_climate_mode_to_esphome(kwargs[ATTR_OPERATION_MODE])
                ELSE Ok(None)
    IN IF mode.raised
       THEN /\ Called("async_set_temperature", <<kwargs>>, TRUE)
            /\ UNCHANGED <<static_info, state, sent>>
       ELSE /\ climate_command(SetTemperatureData(kwargs, mode))
            /\ Called("async_set_temperature", <<kwargs>>, FALSE)
            /\ UNCHANGED <<static_info, state>>

async_set_operation_mode(operation_mode) ==
    LET mode == _ha_climate_mode_to_esphome(operation_mode)
    IN IF mode.raised
       THEN /\ Called("async_set_operation_mode", <<operation_mode>>, TRUE)
            /\ UNCHANGED <<static_info, state, sent>>
       ELSE /\ climate_command(("key" :> static_info.key) @@
                               ("mode" :> mode.value[1]))
            /\ Called("async_set_operation_mode", <<operation_mode>>, FALSE)
            /\ UNCHANGED <<static_info, state>>

\* Mutant of async_turn_away_mode_on: the entity also records the away flag
\* in its own state snapshot.
async_turn_away_mode_on_Optimistic ==
    /\ climate_command(("key" :> static_info.key) @@ ("away" :> TRUE))
    /\ Called("async_turn_away_mode_on", <<>>, FALSE)
    /\ state' = IF state = None THEN state
                ELSE Some([state[1] EXCEPT !.away = TRUE])
    /\ UNCHANGED static_info

async_turn_away_mode_on ==
    /\ climate_command(("key" :> static_info.key) @@ ("away" :> TRUE))
    /\ Called("async_turn_away_mode_on", <<>>, FALSE)
    /\ UNCHANGED <<static_info, state>>

\* Mutant of async_turn_away_mode_off: the body of async_turn_away_mode_on.
async_turn_away_mode_off_SendsTrue ==
    /\ climate_command(("key" :> static_info.key) @@ ("away" :> TRUE))
    /\ Called("async_turn_away_mode_off", <<>>, FALSE)
    /\ UNCHANGED <<static_info, state>>

async_turn_away_mode_off ==
    /\ climate_command(("key" :> static_info.key) @@ ("away" :> FALSE))
    /\ Called("async_turn_away_mode_off", <<>>, FALSE)
    /\ UNCHANGED <<static_info, state>>

\* The device delivers state snapshot s; the entity's _state is s from then on.
DeliverState(s) ==
    /\ state' = Some(s)
    /\ Called("on_state", <<>>, FALSE)
    /\ UNCHANGED <<static_info, sent>>

(* --------------------------- inputs and Init --------------------------- *)

Keys == {1, 2}

HostModes == {STATE_OFF, STATE_AUTO, STATE_COOL, STATE_HEAT}

\* what a host caller may pass as a mode: the four modes and two others
HostModeInputs == HostModes \cup {"eco", "dry"}

\* supported_modes lists of at most MaxModes device modes
ModeLists == UNION {[1..n -> ClimateMode] : n \in 0..MaxModes}

\* visual_temperature_step values, in hundredths: -0.5, 0, 0.09, 0.1, 0.49, ...
Steps ==
    {NaN} \cup {Float(x) : x \in {-50, 0, 9, 10, 49, 50, 99, 100, 250}}

\* temperatures a device reports: no value, 0 and 21.5
DeviceTemps == {NaN, Float(0), Float(2150)}

ClimateInfos(keys, lists, steps, twos, aways) ==
    [key : keys, supported_modes : lists, visual_temperature_step : steps,
     supports_two_point_target_temperature : twos, supports_away : aways]

ClimateStates(modes, currents, targets, lows, highs, aways) ==
    [mode : modes, current_temperature : currents, target_temperature : targets,
     target_temperature_low : lows, target_temperature_high : highs,
     away : aways]

\* one keyword argument, given (o = Some(x)) or not (o = None)
KwArg(name, o) == IF o = None THEN <<>> ELSE name :> o[1]

Optional(S) == {None} \cup {Some(x) : x \in S}

\* the keyword arguments of async_set_temperature calls
KwArgs(modes, temps, lows, highs) ==
    {KwArg(ATTR_OPERATION_MODE, m) @@ KwArg(ATTR_TEMPERATURE, t) @@
     KwArg(ATTR_TARGET_TEMP_LOW, l) @@ KwArg(ATTR_TARGET_TEMP_HIGH, h) :
        m \in Optional(modes), t \in Optional(temps),
        l \in Optional(lows), h \in Optional(highs)}

\* The entity after construction with static info from `infos`: no state yet,
\* nothing sent.
InitWith(infos) ==
    /\ static_info \in infos
    /\ state = None
    /\ sent = <<>>
    /\ ret = [op |-> "init", args |-> <<>>, raised |-> FALSE, value |-> None]

(* Spec: the command operations, with state deliveries in between. *)

SpecInfos ==
    ClimateInfos(Keys, {<<"OFF", "HEAT">>}, {Float(50)}, {FALSE}, BOOLEAN)

SpecStates ==
    ClimateStates({"OFF", "HEAT"}, {Float(2150)}, {NaN, Float(0)},
                  {NaN}, {NaN}, BOOLEAN)

SpecKwArgs ==
    KwArgs(HostModes \cup {"eco"}, {Float(0), Float(2100)},
           {Float(1800)}, {Float(2500)})

Init == InitWith(SpecInfos)

Next ==
    \/ \E s \in SpecStates : DeliverState(s)
    \/ Len(sent) < MaxCmds /\ \E kwargs \in SpecKwArgs : async_set_temperature(kwargs)
    \/ Len(sent) < MaxCmds /\ \E h \in HostModeInputs : async_set_operation_mode(h)
    \/ Len(sent) < MaxCmds /\ async_turn_away_mode_on
    \/ Len(sent) < MaxCmds /\ async_turn_away_mode_off

Spec == Init /\ [][Next]_vars

(* SpecState: state deliveries and the state properties. *)

StateInfos ==
    ClimateInfos({1}, {<<>>, <<"HEAT">>}, {Float(50)}, BOOLEAN, {TRUE})

StateStates ==
    ClimateStates({"OFF", "HEAT"}, DeviceTemps, DeviceTemps, DeviceTemps,
                  DeviceTemps, BOOLEAN)

InitState == InitWith(StateInfos)

NextState ==
    \/ \E s \in StateStates : DeliverState(s)
    \/ get_current_operation
    \/ get_current_temperature
    \/ get_target_temperature
    \/ get_target_temperature_low
    \/ get_target_temperature_high
    \/ get_is_away_mode_on

SpecState == InitState /\ [][NextState]_vars

(* SpecInfo: the properties computed from the static info. *)

InfoInfos ==
    ClimateInfos(Keys, {<<"OFF", "HEAT">>}, Steps, BOOLEAN, BOOLEAN)

InitInfo == InitWith(InfoInfos)

NextInfo ==
    \/ get_precision
    \/ get_supported_features

SpecInfo == InitInfo /\ [][NextInfo]_vars

(* SpecModes: the mode translation, device to host and back. *)

ModesInfos ==
    ClimateInfos(Keys, ModeLists, {Float(50)}, {FALSE}, {FALSE})

ModesStates ==
    ClimateStates(ClimateMode, {Float(2150)}, {Float(2100)}, {NaN}, {NaN},
                  {FALSE})

InitModes == InitWith(ModesInfos)

NextModes ==
    \/ \E s \in ModesStates : DeliverState(s)
    \/ get_operation_list
    \/ get_current_operation
    \/ Len(sent) < MaxCmds /\ \E h \in HostModeInputs : async_set_operation_mode(h)

SpecModes == InitModes /\ [][NextModes]_vars

(* SpecAway: sequences of away commands. *)

AwayInfos ==
    ClimateInfos(Keys, {<<"OFF", "HEAT">>}, {Float(50)}, BOOLEAN, BOOLEAN)

InitAway == InitWith(AwayInfos)

NextAway ==
    \/ Len(sent) < MaxAwayCmds /\ async_turn_away_mode_on
    \/ Len(sent) < MaxAwayCmds /\ async_turn_away_mode_off

SpecAway == InitAway /\ [][NextAway]_vars

(* ------------------------------- claims -------------------------------- *)

CommandOps ==
    {"async_set_temperature", "async_set_operation_mode",
     "async_turn_away_mode_on", "async_turn_away_mode_off"}

StateProps ==
    {"current_operation", "current_temperature", "target_temperature",
     "target_temperature_low", "target_temperature_high", "is_away_mode_on"}

Last(q) == q[Len(q)]

\* the device mode a host mode stands for, and back, as the claims state them
DeviceModeOf(h) ==
    CASE h = "off" -> "OFF" [] h = "auto" -> "AUTO"
      [] h = "cool" -> "COOL" [] h = "heat" -> "HEAT"

HostModeOf(m) ==
    CASE m = "OFF" -> "off" [] m = "AUTO" -> "auto"
      [] m = "COOL" -> "cool" [] m = "HEAT" -> "heat"

\* C1: the mode translation is one-to-one.  A mode m reported by the device and
\* read as current_operation translates back to m; a host mode h sent by
\* async_set_operation_mode translates back to h; no two device modes share a
\* host mode and no two host modes share a device mode.
C1_ModeTranslationOneToOne ==
    /\ (ret.op = "current_operation" /\ state # None) =>
          /\ ~ret.raised
          /\ ret.value # None
          /\ _ha_climate_mode_to_esphome(ret.value[1]) = Ok(Some(state[1].mode))
    /\ (ret.op = "async_set_operation_mode" /\ ret.args[1] \in HostModes) =>
          /\ ~ret.raised
          /\ Len(sent) >= 1
          /\ _esphome_climate_mode_to_ha(Last(sent).mode) = Ok(Some(ret.args[1]))
    /\ \A m1, m2 \in ClimateMode :
          /\ ~_esphome_climate_mode_to_ha(m1).raised
          /\ _esphome_climate_mode_to_ha(m1) = _esphome_climate_mode_to_ha(m2)
                => m1 = m2
    /\ \A h1, h2 \in HostModes :
          /\ ~_ha_climate_mode_to_esphome(h1).raised
          /\ _ha_climate_mode_to_esphome(h1) = _ha_climate_mode_to_esphome(h2)
                => h1 = h2

C1_Witness ==
    /\ ret.op = "async_set_operation_mode"
    /\ ret.args = <<"cool">>
    /\ state # None
    /\ state[1].mode = "AUTO"
    /\ Len(sent) = 1

\* whether single bit `bit` (a power of two) is set in mask f
HasBit(f, bit) == (f \div bit) % 2 = 1

\* the feature bits a climate entity may report: bits 0 .. 12
FeatureBits == {1, 2, 4, 8, 16, 32, 64, 128, 256, 512, 1024, 2048, 4096}

\* C2: supported_features always has SUPPORT_OPERATION_MODE; LOW and HIGH and
\* not TARGET_TEMPERATURE with two-point targets, TARGET_TEMPERATURE and neither
\* LOW nor HIGH without; AWAY_MODE iff supports_away; and no other bit.
C2_SupportedFeatures ==
    ret.op = "supported_features" =>
        /\ ~ret.raised
        /\ ret.value # None
        /\ LET f == ret.value[1]
               two == static_info.supports_two_point_target_temperature
           IN /\ HasBit(f, SUPPORT_OPERATION_MODE)
              /\ HasBit(f, SUPPORT_TARGET_TEMPERATURE_LOW) <=> two
              /\ HasBit(f, SUPPORT_TARGET_TEMPERATURE_HIGH) <=> two
              /\ HasBit(f, SUPPORT_TARGET_TEMPERATURE) <=> ~two
              /\ HasBit(f, SUPPORT_AWAY_MODE) <=> static_info.supports_away
              /\ f >= 0
              /\ f < 8192
              /\ \A b \in FeatureBits :
                    HasBit(f, b) =>
                        b \in {SUPPORT_OPERATION_MODE,
                               SUPPORT_TARGET_TEMPERATURE_LOW,
                               SUPPORT_TARGET_TEMPERATURE_HIGH,
                               SUPPORT_TARGET_TEMPERATURE,
                               SUPPORT_AWAY_MODE}

C2_Witness ==
    /\ ret.op = "supported_features"
    /\ static_info.supports_two_point_target_temperature
    /\ static_info.supports_away
    /\ ret.value = Some(1158)

\* C3: while no state has been received, each of the six state properties
\* returns None and none raises, whatever the static info.
C3_NoneBeforeFirstState ==
    state = None =>
        /\ current_operation = Ok(None)
        /\ current_temperature = Ok(None)
        /\ target_temperature = Ok(None)
        /\ target_temperature_low = Ok(None)
        /\ target_temperature_high = Ok(None)
        /\ is_away_mode_on = Ok(None)
        /\ ret.op \in StateProps => (~ret.raised /\ ret.value = None)

C3_Witness ==
    /\ state = None
    /\ ret.op = "current_operation"
    /\ static_info.supports_two_point_target_temperature
    /\ static_info.supported_modes = <<>>

\* the command field an async_set_temperature argument is sent as
FieldOf(attr) ==
    CASE attr = ATTR_OPERATION_MODE -> "mode"
      [] attr = ATTR_TEMPERATURE -> "target_temperature"
      [] attr = ATTR_TARGET_TEMP_LOW -> "target_temperature_low"
      [] attr = ATTR_TARGET_TEMP_HIGH -> "target_temperature_high"

\* C4: every successful command operation issues exactly one climate_command,
\* carrying the entity's key; for async_set_temperature that one command has
\* exactly the fields whose arguments were given, the mode translated to the
\* device enum and the temperatures unchanged.
C4_OneCommandPerCall ==
    [][(ret'.op \in CommandOps /\ ~ret'.raised) =>
          /\ Len(sent') = Len(sent) + 1
          /\ SubSeq(sent', 1, Len(sent)) = sent
          /\ "key" \in DOMAIN Last(sent')
          /\ Last(sent')["key"] = static_info.key
          /\ ret'.op = "async_set_temperature" =>
                LET kwargs == ret'.args[1]
                    cmd == Last(sent')
                IN /\ DOMAIN cmd = {"key"} \cup {FieldOf(a) : a \in DOMAIN kwargs}
                   /\ \A a \in DOMAIN kwargs :
                         cmd[FieldOf(a)] =
                            IF a = ATTR_OPERATION_MODE
                            THEN DeviceModeOf(kwargs[a]) ELSE kwargs[a]
       ]_vars

C4_Witness ==
    /\ ret.op = "async_set_temperature"
    /\ ~ret.raised
    /\ DOMAIN ret.args[1] = {ATTR_OPERATION_MODE, ATTR_TEMPERATURE}
    /\ ret.args[1][ATTR_TEMPERATURE] = Float(0)
    /\ Len(sent) = 1
    /\ static_info.key = 2

\* what the six state properties return
Props ==
    <<current_operation, current_temperature, target_temperature,
      target_temperature_low, target_temperature_high, is_away_mode_on>>

\* C5: no command operation changes the state snapshot or the static info, so
\* every state property returns after a command what it returned before; the
\* values the properties report change only when the device delivers a state.
C5_CommandsKeepState ==
    [][/\ ret'.op \in CommandOps =>
             (state' = state /\ static_info' = static_info /\ Props' = Props)
       /\ Props' # Props => ret'.op = "on_state"
      ]_vars

C5_Witness ==
    /\ state # None
    /\ ~state[1].away
    /\ state[1].mode = "OFF"
    /\ ret.op = "async_turn_away_mode_on"
    /\ Len(sent) = 1

\* C6: operation_list has the length and order of supported_modes, entry i the
\* host translation of mode i; every entry h is accepted by
\* async_set_operation_mode, whose command carries a device mode producing h.
C6_OperationList ==
    /\ ret.op = "operation_list" =>
          /\ ~ret.raised
          /\ ret.value # None
          /\ Len(ret.value[1]) = Len(static_info.supported_modes)
          /\ \A i \in 1..Len(static_info.supported_modes) :
                ret.value[1][i] = HostModeOf(static_info.supported_modes[i])
    /\ ~operation_list.raised
    /\ (/\ ret.op = "async_set_operation_mode"
        /\ \E i \in 1..Len(operation_list.value[1]) :
              operation_list.value[1][i] = ret.args[1]) =>
          /\ ~ret.raised
          /\ Len(sent) >= 1
          /\ DOMAIN Last(sent) = {"key", "mode"}
          /\ \E i \in 1..Len(static_info.supported_modes) :
                /\ operation_list.value[1][i] = ret.args[1]
                /\ Last(sent).mode = static_info.supported_modes[i]

C6_Witness ==
    /\ ret.op = "async_set_operation_mode"
    /\ ret.args = <<"cool">>
    /\ static_info.supported_modes = <<"HEAT", "COOL">>
    /\ Len(sent) = 1

\* C7: precision is whole when step >= 1, halves when 0.5 <= step < 1, tenths
\* when 0.1 <= step < 0.5 and also when step < 0.1; it is always one of the
\* three precisions.
C7_Precision ==
    ret.op = "precision" =>
        /\ ~ret.raised
        /\ ret.value # None
        /\ ret.value[1] \in {100, 50, 10}
        /\ LET step == static_info.visual_temperature_step
           IN ~step.nan =>
                 /\ step.v >= 100 => ret.value[1] = 100
                 /\ (50 <= step.v /\ step.v < 100) => ret.value[1] = 50
                 /\ (10 <= step.v /\ step.v < 50) => ret.value[1] = 10
                 /\ step.v < 10 => ret.value[1] = 10

C7_Witness ==
    /\ ret.op = "precision"
    /\ static_info.visual_temperature_step = Float(50)
    /\ ret.value = Some(50)

\* C8: with a state present, each of the four temperature properties returns
\* None iff its own state field is NaN and the field unchanged otherwise (0
\* included), whatever the other fields are.
C8_NaNIsNone ==
    state # None =>
        /\ ret.op = "current_temperature" =>
              ret = [op |-> "current_temperature", args |-> <<>>, raised |-> FALSE,
                     value |-> IF state[1].current_temperature.nan THEN None
                               ELSE Some(state[1].current_temperature)]
        /\ ret.op = "target_temperature" =>
              ret = [op |-> "target_temperature", args |-> <<>>, raised |-> FALSE,
                     value |-> IF state[1].target_temperature.nan THEN None
                               ELSE Some(state[1].target_temperature)]
        /\ ret.op = "target_temperature_low" =>
              ret = [op |-> "target_temperature_low", args |-> <<>>, raised |-> FALSE,
                     value |-> IF state[1].target_temperature_low.nan THEN None
                               ELSE Some(state[1].target_temperature_low)]
        /\ ret.op = "target_temperature_high" =>
              ret = [op |-> "target_temperature_high", args |-> <<>>, raised |-> FALSE,
                     value |-> IF state[1].target_temperature_high.nan THEN None
                               ELSE Some(state[1].target_temperature_high)]

C8_Witness ==
    /\ state # None
    /\ ret.op = "target_temperature"
    /\ ret.value = Some(Float(0))
    /\ state[1].current_temperature = NaN
    /\ state[1].target_temperature_low = NaN

\* whether the call recorded in r passed a mode outside off, auto, cool, heat
BadModeCall(r) ==
    \/ r.op = "async_set_operation_mode" /\ r.args[1] \notin HostModes
    \/ /\ r.op = "async_set_temperature"
       /\ ATTR_OPERATION_MODE \in DOMAIN r.args[1]
       /\ r.args[1][ATTR_OPERATION_MODE] \notin HostModes

\* C9: a call of async_set_operation_mode, or of async_set_temperature with a
\* mode, whose mode is outside off, auto, cool, heat fails and sends nothing,
\* the temperatures of the same call included; the state is unchanged.
C9_BadModeSendsNothing ==
    [][BadModeCall(ret') => (ret'.raised /\ sent' = sent /\ state' = state)]_vars

C9_Witness ==
    /\ ret.op = "async_set_temperature"
    /\ ret.raised
    /\ ATTR_TEMPERATURE \in DOMAIN ret.args[1]
    /\ ATTR_TARGET_TEMP_HIGH \in DOMAIN ret.args[1]
    /\ state # None
    /\ sent = <<>>

\* C10: async_turn_away_mode_on appends a command with away = TRUE and
\* async_turn_away_mode_off one with away = FALSE, each with the key and the
\* away flag only, whether or not supports_away; the commands sent before keep
\* their places, so the last command carries the away value of the last call.
C10_AwayCommands ==
    [][/\ ret'.op = "async_turn_away_mode_on" =>
             sent' = Append(sent, [key |-> static_info.key, away |-> TRUE])
       /\ ret'.op = "async_turn_away_mode_off" =>
             sent' = Append(sent, [key |-> static_info.key, away |-> FALSE])
      ]_vars

C10_Witness ==
    /\ ~static_info.supports_away
    /\ Len(sent) = 3
    /\ sent[1].away
    /\ sent[2].away
    /\ ~sent[3].away
    /\ ret.op = "async_turn_away_mode_off"

====
